---- MODULE Spec2Model ----
(***************************************************************************)
(* generate_rss.py: fetch one PAGASA regional-forecast page, extract the   *)
(* advisories of three containers and write them as an RSS 2.0 file.       *)
(*                                                                         *)
(* Text is modelled character by character: a string is a sequence of      *)
(* one-character strings.  Two characters have a name instead of a glyph:  *)
(* "NBSP" is U+00A0 and "SUR" is a lone surrogate (what bs4 makes of the   *)
(* character reference &#xD800;).                                          *)
(***************************************************************************)
EXTENDS Integers, Sequences, FiniteSets, TLC

\* pc       where main is
\* page     what the site serves for the slug
\* disk     <slug>.rss: whether it exists, and the chunks written to it
\* channel  the children of the <channel> element built so far
\* log      what was printed
\* gets     the HTTP GETs issued
\* calls    the markup handed to safe_fromstring so far, with the path taken
VARIABLES pc, page, disk, channel, log, gets, calls

vars == <<pc, page, disk, channel, log, gets, calls>>

(***************************************************************************)
(* Strings                                                                 *)
(***************************************************************************)
None == <<"None">>

Lower(c) ==
    CASE c = "B" -> "b" [] c = "R" -> "r" [] c = "N" -> "n" [] c = "O" -> "o"
      [] c = "U" -> "u" [] c = "M" -> "m" [] c = "E" -> "e" [] OTHER -> c

\* str.startswith(p) at 1-based position i
StartsAt(s, i, p) ==
    /\ i >= 1
    /\ i + Len(p) - 1 <= Len(s)
    /\ \A k \in 1..Len(p) : s[i + k - 1] = p[k]

\* the same, ignoring letter case (re.IGNORECASE against a lower-case pattern)
StartsAtNoCase(s, i, p) ==
    /\ i >= 1
    /\ i + Len(p) - 1 <= Len(s)
    /\ \A k \in 1..Len(p) : Lower(s[i + k - 1]) = p[k]

RECURSIVE Cat(_)
Cat(ss) == IF ss = <<>> THEN <<>> ELSE Head(ss) \o Cat(Tail(ss))

RECURSIVE Join(_, _)
Join(sep, ss) ==
    IF ss = <<>> THEN <<>>
    ELSE IF Len(ss) = 1 THEN ss[1]
    ELSE ss[1] \o sep \o Join(sep, Tail(ss))

\* Python's \s and str.strip() on str: Unicode white space, U+00A0 included
IsSpace(c) == c \in {" ", "\n", "\t", "NBSP"}

IsDigit(c) == c \in {"0", "1", "2", "3", "4", "5", "6", "7", "8", "9"}

RECURSIVE LStrip(_)
LStrip(s) == IF s # <<>> /\ IsSpace(Head(s)) THEN LStrip(Tail(s)) ELSE s

RECURSIVE RStrip(_)
RStrip(s) ==
    IF s # <<>> /\ IsSpace(s[Len(s)]) THEN RStrip(SubSeq(s, 1, Len(s) - 1)) ELSE s

Strip(s) == RStrip(LStrip(s))

\* first position >= i whose character is not white space (Len(s)+1 if none)
RECURSIVE SkipSpace(_, _)
SkipSpace(s, i) ==
    IF i <= Len(s) /\ IsSpace(s[i]) THEN SkipSpace(s, i + 1) ELSE i

\* first position >= i whose character is not a digit
RECURSIVE SkipDigits(_, _)
SkipDigits(s, i) ==
    IF i <= Len(s) /\ IsDigit(s[i]) THEN SkipDigits(s, i + 1) ELSE i

(***************************************************************************)
(* normalize_html                                                          *)
(***************************************************************************)
\* re.sub(r'\s+', ' ', s)
RECURSIVE CollapseSpace(_)
CollapseSpace(s) ==
    IF s = <<>> THEN <<>>
    ELSE IF IsSpace(Head(s))
         THEN <<" ">> \o CollapseSpace(SubSeq(s, SkipSpace(s, 1), Len(s)))
         ELSE <<Head(s)>> \o CollapseSpace(Tail(s))

\* length of the match of <br\s*/?> (any letter case) at position i; 0 if none
BrMatch(s, i) ==
    IF ~StartsAtNoCase(s, i, <<"<", "b", "r">>) THEN 0
    ELSE LET j == SkipSpace(s, i + 3)
             k == IF j <= Len(s) /\ s[j] = "/" THEN j + 1 ELSE j
         IN  IF k <= Len(s) /\ s[k] = ">" THEN k - i + 1 ELSE 0

BrCanonical == <<"<", "b", "r", " ", "/", ">">>

\* re.sub(r'<br\s*/?>', '<br />', s, flags=re.IGNORECASE)
RECURSIVE SubBr(_)
SubBr(s) ==
    IF s = <<>> THEN <<>>
    ELSE LET n == BrMatch(s, 1)
         IN  IF n > 0 THEN BrCanonical \o SubBr(SubSeq(s, n + 1, Len(s)))
             ELSE <<Head(s)>> \o SubBr(Tail(s))

CloseBr == <<"<", "/", "b", "r", ">">>

\* s.replace('</br>', ''): case-sensitive, left to right, not repeated
RECURSIVE RemoveCloseBr(_)
RemoveCloseBr(s) ==
    IF s = <<>> THEN <<>>
    ELSE IF StartsAt(s, 1, CloseBr)
         THEN RemoveCloseBr(SubSeq(s, Len(CloseBr) + 1, Len(s)))
         ELSE <<Head(s)>> \o RemoveCloseBr(Tail(s))

normalize_html(html) ==
    IF html = <<>> THEN <<>>
    ELSE RemoveCloseBr(SubBr(CollapseSpace(Strip(html))))

(***************************************************************************)
(* The advisory number: re.search(r'(?:No|Number)\.?\s*(\d+)', html, re.I) *)
(***************************************************************************)
\* the digits captured by a match that starts at position i, or None
NumberMatchAt(s, i) ==
    LET w == IF StartsAtNoCase(s, i, <<"n", "o">>) THEN 2
             ELSE IF StartsAtNoCase(s, i, <<"n", "u", "m", "b", "e", "r">>) THEN 6
             ELSE 0
        d == IF i + w <= Len(s) /\ s[i + w] = "." THEN i + w + 1 ELSE i + w
        j == SkipSpace(s, d)
        e == SkipDigits(s, j)
    IN  IF w > 0 /\ e > j THEN SubSeq(s, j, e - 1) ELSE None

RECURSIVE LastMatchFrom(_, _)
LastMatchFrom(s, i) ==
    IF i < 1 THEN None
    ELSE IF NumberMatchAt(s, i) # None THEN NumberMatchAt(s, i)
    ELSE LastMatchFrom(s, i - 1)

\* SearchNumber taking the last match instead of the first
SearchNumberLast(s, i) == LastMatchFrom(s, Len(s))

\* re.search: the match at the leftmost position that has one
RECURSIVE SearchNumber(_, _)
SearchNumber(s, i) ==
    IF i > Len(s) THEN None
    ELSE IF NumberMatchAt(s, i) # None THEN NumberMatchAt(s, i)
    ELSE SearchNumber(s, i + 1)

(***************************************************************************)
(* xml.etree.ElementTree.fromstring(f"<div>{html_content}</div>")          *)
(***************************************************************************)
Letters ==
    {"a", "b", "c", "d", "e", "f", "g", "h", "i", "j", "k", "l", "m", "n", "o",
     "p", "q", "r", "s", "t", "u", "v", "w", "x", "y", "z", "B", "N", "O", "R"}

IsNameChar(c) == c \in Letters \/ IsDigit(c) \/ c = "."

\* XML white space (U+00A0 is not)
IsXmlSpace(c) == c \in {" ", "\n", "\t"}

RECURSIVE SkipName(_, _)
SkipName(s, i) ==
    IF i <= Len(s) /\ IsNameChar(s[i]) THEN SkipName(s, i + 1) ELSE i

RECURSIVE SkipXmlSpace(_, _)
SkipXmlSpace(s, i) ==
    IF i <= Len(s) /\ IsXmlSpace(s[i]) THEN SkipXmlSpace(s, i + 1) ELSE i

\* the five entities XML predefines, with the character each stands for
XmlEntities ==
    { <<<<"&", "a", "m", "p", ";">>, "&">>,
      <<<<"&", "l", "t", ";">>, "<">>,
      <<<<"&", "g", "t", ";">>, ">">>,
      <<<<"&", "q", "u", "o", "t", ";">>, "\"">>,
      <<<<"&", "a", "p", "o", "s", ";">>, "'">> }

XmlErrToken == [k |-> "err", len |-> 1, name |-> <<>>]

\* the token that starts at position i: a character of text, a start tag, an
\* empty-element tag, an end tag, or something expat rejects
XmlToken(s, i) ==
    IF s[i] = "&"
    THEN IF \E e \in XmlEntities : StartsAt(s, i, e[1])
         THEN LET e == CHOOSE e \in XmlEntities : StartsAt(s, i, e[1])
              IN  [k |-> "text", len |-> Len(e[1]), name |-> <<e[2]>>]
         ELSE XmlErrToken
    ELSE IF s[i] = "<"
    THEN IF i + 1 <= Len(s) /\ s[i + 1] = "/"
         THEN LET n == SkipName(s, i + 2)
                  j == SkipXmlSpace(s, n)
              IN  IF n > i + 2 /\ s[i + 2] \in Letters /\ j <= Len(s) /\ s[j] = ">"
                  THEN [k |-> "close", len |-> j - i + 1, name |-> SubSeq(s, i + 2, n - 1)]
                  ELSE XmlErrToken
         ELSE LET n == SkipName(s, i + 1)
                  j == SkipXmlSpace(s, n)
              IN  IF n > i + 1 /\ s[i + 1] \in Letters /\ j <= Len(s) /\ s[j] = ">"
                  THEN [k |-> "open", len |-> j - i + 1, name |-> SubSeq(s, i + 1, n - 1)]
                  ELSE IF n > i + 1 /\ s[i + 1] \in Letters /\ StartsAt(s, j, <<"/", ">">>)
                  THEN [k |-> "empty", len |-> j - i + 2, name |-> SubSeq(s, i + 1, n - 1)]
                  ELSE XmlErrToken
    ELSE [k |-> "text", len |-> 1, name |-> <<s[i]>>]

XmlRejected == [ok |-> FALSE, text |-> <<>>, kids |-> <<>>]

\* st.stack: the open elements inside the <div> root; st.from: where the inner
\* markup of the open child of the root starts.  A child of the root is kept as
\* its tag, its inner markup and its tail.
RECURSIVE XmlScan(_, _, _)
XmlScan(s, i, st) ==
    IF i > Len(s)
    THEN IF st.stack = <<>> THEN [ok |-> TRUE, text |-> st.text, kids |-> st.kids]
         ELSE XmlRejected
    ELSE
    LET t == XmlToken(s, i)
        depth == Len(st.stack)
        last == Len(st.kids)
        child == [tag |-> t.name, inner |-> <<>>, tail |-> <<>>]
    IN  CASE t.k = "err" -> XmlRejected
          [] t.k = "text" ->
                XmlScan(s, i + t.len,
                    IF depth > 0 THEN st
                    ELSE IF last = 0 THEN [st EXCEPT !.text = @ \o t.name]
                    ELSE [st EXCEPT !.kids[last].tail = @ \o t.name])
          [] t.k = "open" ->
                XmlScan(s, i + t.len,
                    IF depth > 0 THEN [st EXCEPT !.stack = Append(@, t.name)]
                    ELSE [st EXCEPT !.stack = <<t.name>>,
                                    !.kids = Append(@, child),
                                    !.from = i + t.len])
          [] t.k = "empty" ->
                XmlScan(s, i + t.len,
                    IF depth > 0 THEN st ELSE [st EXCEPT !.kids = Append(@, child)])
          [] OTHER ->
                IF depth = 0 \/ st.stack[depth] # t.name THEN XmlRejected
                ELSE XmlScan(s, i + t.len,
                    IF depth > 1 THEN [st EXCEPT !.stack = SubSeq(@, 1, depth - 1)]
                    ELSE [st EXCEPT !.stack = <<>>,
                                    !.kids[last].inner = SubSeq(s, st.from, i - 1)])

XmlParse(s) == XmlScan(s, 1, [stack |-> <<>>, text |-> <<>>, kids |-> <<>>, from |-> 1])

\* the str is encoded to UTF-8 before expat sees it: a lone surrogate raises
\* UnicodeEncodeError, which is no ParseError
RaisesEncodeError(s) == \E i \in 1..Len(s) : s[i] = "SUR"

(***************************************************************************)
(* html.unescape                                                           *)
(***************************************************************************)
\* html.entities.html5, the names these alphabets can spell
Html5 ==
    { <<<<"a", "m", "p", ";">>, "&">>,  <<<<"a", "m", "p">>, "&">>,
      <<<<"l", "t", ";">>, "<">>,       <<<<"l", "t">>, "<">>,
      <<<<"g", "t", ";">>, ">">>,       <<<<"g", "t">>, ">">>,
      <<<<"n", "b", "s", "p", ";">>, "NBSP">>, <<<<"n", "b", "s", "p">>, "NBSP">> }

IsHtml5(n) == \E e \in Html5 : e[1] = n

Html5Char(n) == (CHOOSE e \in Html5 : e[1] = n)[2]

\* [^\t\n\f <&#;]{1,32}
RECURSIVE SkipRefName(_, _, _)
SkipRefName(s, i, n) ==
    IF i <= Len(s) /\ n < 32 /\ s[i] \notin {"\t", "\n", " ", "<", "&", "#", ";"}
    THEN SkipRefName(s, i + 1, n + 1) ELSE i

\* replace_charref for a named reference: the name itself, else its longest
\* prefix of two characters or more that is a name, else the text as it is
RECURSIVE LongestPrefix(_, _)
LongestPrefix(n, x) ==
    IF x < 2 THEN <<"&">> \o n
    ELSE IF IsHtml5(SubSeq(n, 1, x))
         THEN <<Html5Char(SubSeq(n, 1, x))>> \o SubSeq(n, x + 1, Len(n))
         ELSE LongestPrefix(n, x - 1)

ReplaceCharref(n) ==
    IF IsHtml5(n) THEN <<Html5Char(n)>> ELSE LongestPrefix(n, Len(n) - 1)

RECURSIVE Unescape(_)
Unescape(s) ==
    IF s = <<>> THEN <<>>
    ELSE IF Head(s) # "&" THEN <<Head(s)>> \o Unescape(Tail(s))
    ELSE LET e == SkipRefName(s, 2, 0)
             f == IF e <= Len(s) /\ s[e] = ";" THEN e + 1 ELSE e
         IN  IF e = 2 THEN <<"&">> \o Unescape(Tail(s))
             ELSE ReplaceCharref(SubSeq(s, 2, f - 1)) \o Unescape(SubSeq(s, f, Len(s)))

(***************************************************************************)
(* re.split(r'(?i)<br\s*/?>', text)                                        *)
(***************************************************************************)
RECURSIVE SplitBr(_, _)
SplitBr(s, cur) ==
    IF s = <<>> THEN <<cur>>
    ELSE LET n == BrMatch(s, 1)
         IN  IF n > 0 THEN <<cur>> \o SplitBr(SubSeq(s, n + 1, Len(s)), <<>>)
             ELSE SplitBr(Tail(s), Append(cur, Head(s)))

(***************************************************************************)
(* safe_fromstring                                                         *)
(***************************************************************************)
BrChildren(parts) ==
    [k \in 1..Len(parts) |-> [tag |-> <<"b", "r">>, inner |-> <<>>, tail |-> parts[k]]]

\* lines 28-39: the fragment rebuilt from the text between the line breaks
FromParts(parts) ==
    [raised |-> FALSE, path |-> "split", text |-> parts[1], kids |-> BrChildren(Tail(parts))]

\* lines 24-39, given what fromstring made of the wrapped markup
FromParse(html_content, parsed) ==
    IF parsed.ok
    THEN [raised |-> FALSE, path |-> "xml", text |-> parsed.text, kids |-> parsed.kids]
    ELSE FromParts(SplitBr(Unescape(html_content), <<>>))

\* safe_fromstring with "except Exception" in the place of "except ParseError"
safe_fromstring_any(html_content) ==
    IF RaisesEncodeError(html_content)
    THEN FromParts(SplitBr(Unescape(html_content), <<>>))
    ELSE FromParse(html_content, XmlParse(html_content))

\* raised: an exception that is no ParseError leaves the function
safe_fromstring(html_content) ==
    IF RaisesEncodeError(html_content)
    THEN [raised |-> TRUE, path |-> "raise", text |-> <<>>, kids |-> <<>>]
    ELSE FromParse(html_content, XmlParse(html_content))

(***************************************************************************)
(* The fetched page, as BeautifulSoup's html.parser tree                   *)
(*                                                                         *)
(* page: the containers in document order, each [id, kids].  A kid is a    *)
(* <div> block or an <a> link, [k, href, nodes]; a node is [k, s]:         *)
(*   in a block  text (s its characters), br, img, b and op (<b>, <o:p>    *)
(*               around the text s), div (a nested block around s);        *)
(*   in a link   text, span (a <span> around the text s).                  *)
(***************************************************************************)
\* Find without the id: soup.find("div")
FindAnyDiv(soup, div_id) == IF soup = <<>> THEN <<>> ELSE <<soup[1]>>

\* soup.find("div", id=div_id): the first one in document order; <<>> for None,
\* <<div>> for a tag (a Tag is always truthy)
Find(soup, div_id) ==
    IF \E i \in 1..Len(soup) : soup[i].id = div_id
    THEN <<soup[CHOOSE i \in 1..Len(soup) :
                   soup[i].id = div_id /\ \A j \in 1..(i - 1) : soup[j].id # div_id]>>
    ELSE <<>>

\* bs4's "minimal" output formatter
RECURSIVE EscapeMinimal(_)
EscapeMinimal(s) ==
    IF s = <<>> THEN <<>>
    ELSE (CASE Head(s) = "&" -> <<"&", "a", "m", "p", ";">>
            [] Head(s) = "<" -> <<"&", "l", "t", ";">>
            [] Head(s) = ">" -> <<"&", "g", "t", ";">>
            [] OTHER -> <<Head(s)>>) \o EscapeMinimal(Tail(s))

\* Tag.decode() of one node of a block
DecodeNode(n) ==
    CASE n.k = "text" -> EscapeMinimal(n.s)
      [] n.k = "br" -> <<"<", "b", "r", "/", ">">>
      [] n.k = "img" -> <<"<", "i", "m", "g", "/", ">">>
      [] n.k = "b" -> <<"<", "b", ">">> \o EscapeMinimal(n.s) \o <<"<", "/", "b", ">">>
      [] n.k = "op" -> <<"<", "o", ":", "p", ">">> \o EscapeMinimal(n.s)
                          \o <<"<", "/", "o", ":", "p", ">">>
      [] OTHER -> <<"<", "d", "i", "v", ">">> \o EscapeMinimal(n.s)
                          \o <<"<", "/", "d", "i", "v", ">">>

\* entry.decode_contents()
decode_contents(nodes) == Cat([i \in 1..Len(nodes) |-> DecodeNode(nodes[i])])

\* div.find_all("div"): every <div> below the container, in document order,
\* each given by its child nodes
RECURSIVE FindAllDiv(_)
FindAllDiv(kids) ==
    IF kids = <<>> THEN <<>>
    ELSE LET kid == Head(kids)
             nested == SelectSeq(kid.nodes, LAMBDA n : n.k = "div")
         IN  (IF kid.k = "div"
              THEN <<kid.nodes>> \o [i \in 1..Len(nested) |-> <<[k |-> "text", s |-> nested[i].s]>>]
              ELSE <<>>) \o FindAllDiv(Tail(kids))

NonEmpty(ss) == SelectSeq(ss, LAMBDA x : x # <<>>)

\* the strings of a tag, each stripped, the empty ones dropped (strip=True)
StrippedStrings(nodes) ==
    NonEmpty([i \in 1..Len(nodes) |->
                 IF nodes[i].k \in {"br", "img"} THEN <<>> ELSE Strip(nodes[i].s)])

\* tag.get_text(separator, strip=True)
get_text(nodes, separator) == Join(separator, StrippedStrings(nodes))

\* BeautifulSoup(html, 'html.parser').get_text(): the tags dropped, the
\* character references decoded
RECURSIVE DropTags(_)
DropTags(s) ==
    IF s = <<>> THEN <<>>
    ELSE LET named == \/ Len(s) >= 2 /\ s[2] \in Letters
                      \/ Len(s) >= 3 /\ s[2] = "/" /\ s[3] \in Letters
             close == IF \E j \in 1..Len(s) : s[j] = ">"
                      THEN CHOOSE j \in 1..Len(s) :
                               s[j] = ">" /\ \A h \in 1..(j - 1) : s[h] # ">"
                      ELSE 0
         IN  IF Head(s) = "<" /\ named /\ close > 0
             THEN DropTags(SubSeq(s, close + 1, Len(s)))
             ELSE <<Head(s)>> \o DropTags(Tail(s))

PlainText(html) == Unescape(DropTags(html))

(***************************************************************************)
(* The feed: an element is [tag, text, kids, tail]; a child that came out  *)
(* of a parsed fragment is [tag, inner, tail]                              *)
(***************************************************************************)
Elem(tag, text, kids) == [tag |-> tag, text |-> text, kids |-> kids, tail |-> <<>>]

Slug == "visprsd"

\* slug.upper()
Upper(slug) == IF slug = "visprsd" THEN "VISPRSD" ELSE slug

Origin == "https://www.pagasa.dost.gov.ph"

Categories ==
    [rainfalls |-> "Rainfall Advisory", thunderstorms |-> "Thunderstorm Advisory",
     special |-> "Special Forecast"]

DivIds ==
    [rainfalls |-> "rainfalls", thunderstorms |-> "thunderstorms",
     special |-> "special-forecasts"]

\* lines 91-98 and 125-132, given the outcome of safe_fromstring: the
\* description of an item, with the path taken
DescribeFrag(html, frag) ==
    IF frag.raised
    THEN [path |-> "plain", elem |-> Elem("description", PlainText(html), <<>>)]
    ELSE [path |-> frag.path, elem |-> Elem("description", frag.text, frag.kids)]

Describe(html) == DescribeFrag(html, safe_fromstring(html))

\* lines 83-87: the link child of a special-forecasts item, if any
LinkOf(href) ==
    IF href = None \/ href = <<>> THEN <<>>
    ELSE IF Head(href) = "/" THEN <<Elem("link", <<Origin>> \o href, <<>>)>>
    ELSE <<Elem("link", href, <<>>)>>

\* line 81
LinkTitle(title, category) ==
    IF title # <<>> THEN <<category, ":", " ">> \o title ELSE <<category>>

\* lines 70-77: the body of a hyperlink, from its non-empty spans if it has any
LinkHtml(parts, nodes) ==
    IF parts # <<>> THEN Join(BrCanonical, parts) ELSE get_text(nodes, BrCanonical)

SpanParts(nodes) == StrippedStrings(SelectSeq(nodes, LAMBDA n : n.k = "span"))

\* LinkBuilt without the test of line 89
LinkBuiltAlways(link, category, title, html, d) ==
    [item |-> <<Elem("item", <<>>,
                     <<Elem("title", LinkTitle(title, category), <<>>)>>
                     \o LinkOf(link.href)
                     \o <<d.elem>>
                     \o <<Elem("category", <<category>>, <<>>)>>)>>,
     calls |-> <<[arg |-> html, path |-> d.path]>>]

\* lines 79-100: the item, given title, body and description
LinkBuilt(link, category, title, html, d) ==
    [item |-> <<Elem("item", <<>>,
                     <<Elem("title", LinkTitle(title, category), <<>>)>>
                     \o LinkOf(link.href)
                     \o (IF html # <<>> THEN <<d.elem>> ELSE <<>>)
                     \o <<Elem("category", <<category>>, <<>>)>>)>>,
     calls |-> IF html # <<>> THEN <<[arg |-> html, path |-> d.path]>> ELSE <<>>]

LinkWith(link, category, html) ==
    LinkBuilt(link, category, get_text(link.nodes, <<>>), html, Describe(html))

\* lines 66-100: the item of one hyperlink (a sequence of one)
LinkItem(link, category) ==
    LinkWith(link, category, LinkHtml(SpanParts(link.nodes), link.nodes))

\* lines 115-118
TitleFor(number, category, slug) ==
    IF number # None
    THEN <<category, " ", "N", "o", ".", " ">> \o number \o <<" ", "#", Upper(slug)>>
    ELSE <<category, " ", "#", Upper(slug)>>

\* lines 110-118: the title of a rainfall or thunderstorm item
EntryTitle(html, category, slug) == TitleFor(SearchNumber(html, 1), category, slug)

\* lines 107-134: the item, given the normalized markup and its description
EntryBuilt(html, category, slug, d) ==
    IF Strip(html) = <<>> THEN [item |-> <<>>, calls |-> <<>>]
    ELSE [item |-> <<Elem("item", <<>>,
                         <<Elem("title", EntryTitle(html, category, slug), <<>>),
                           d.elem,
                           Elem("category", <<category>>, <<>>)>>)>>,
          calls |-> <<[arg |-> html, path |-> d.path]>>]

EntryWith(html, category, slug) == EntryBuilt(html, category, slug, Describe(html))

\* lines 104-134: the item of one block (a sequence of one), none when its
\* markup is blank
EntryItem(nodes, category, slug) ==
    EntryWith(normalize_html(decode_contents(nodes)), category, slug)

Collect(made) ==
    [items |-> Cat([i \in 1..Len(made) |-> made[i].item]),
     calls |-> Cat([i \in 1..Len(made) |-> made[i].calls])]

\* lines 64-134, for a container that was found
ItemsOf(kids, div_id, category, slug) ==
    IF div_id = "special-forecasts"
    THEN [i \in 1..Len(kids) |-> IF kids[i].k = "a" THEN LinkItem(kids[i], category)
                                  ELSE [item |-> <<>>, calls |-> <<>>]]
    ELSE [i \in 1..Len(kids) |-> EntryItem(kids[i], category, slug)]

Found(div, div_id, category, slug) ==
    IF div = <<>> THEN <<>>
    ELSE IF div_id = "special-forecasts"
    THEN ItemsOf(div[1].kids, div_id, category, slug)
    ELSE ItemsOf(FindAllDiv(div[1].kids), div_id, category, slug)

\* add_items: what one call appends to the channel, and the fragments it parsed
add_items(soup, div_id, category, slug) ==
    Collect(Found(Find(soup, div_id), div_id, category, slug))

(***************************************************************************)
(* Writing: indent(rss, space="  "), then ElementTree.write                *)
(***************************************************************************)
Indentation(level) == <<"\n">> \o [i \in 1..(2 * level) |-> " "]

Blank(s) == Strip(s) = <<>>

\* _indent_children on the children of an element at this level: a blank tail
\* becomes the children's indentation, the last one the element's own
IndentTails(kids, level) ==
    [i \in 1..Len(kids) |->
        IF ~Blank(kids[i].tail) THEN kids[i]
        ELSE [kids[i] EXCEPT !.tail = Indentation(IF i = Len(kids) THEN level ELSE level + 1)]]

\* an element with children gets a blank text replaced; a child that came out
\* of a fragment keeps its inner markup as it is
IndentElem(e, level) ==
    IF e.kids = <<>> THEN e
    ELSE [e EXCEPT !.text = IF Blank(@) THEN Indentation(level + 1) ELSE @,
                   !.kids = IndentTails(@, level)]

IndentItem(e, level) ==
    IF e.kids = <<>> THEN e
    ELSE [e EXCEPT !.text = IF Blank(@) THEN Indentation(level + 1) ELSE @,
                   !.kids = IndentTails([i \in 1..Len(@) |-> IndentElem(@[i], level + 1)],
                                        level)]

\* the children of <channel> after indent(); <rss> is at level 0
Indented(ch) == IndentTails([i \in 1..Len(ch) |-> IndentItem(ch[i], 2)], 1)

XmlDeclaration == [tag |-> "?xml", text |-> <<>>, kids |-> <<>>, tail |-> <<"\n">>]

\* what tree.write sends to the file, in order: the declaration, then the tree
Chunks(ch) == <<XmlDeclaration>> \o Indented(ch)

(***************************************************************************)
(* main                                                                    *)
(***************************************************************************)
Url(slug) == <<Origin, "/regional-forecast/", slug>>

\* lines 139-146, the request succeeding: one GET, then the page is parsed
FetchOk ==
    /\ pc = "start"
    /\ gets' = gets + 1
    /\ pc' = "build"
    /\ UNCHANGED <<page, disk, channel, log, calls>>

\* FetchFail without the return of line 146
FetchFailGoesOn ==
    /\ pc = "start"
    /\ gets' = gets + 1
    /\ log' = Append(log, "Error fetching data")
    /\ pc' = "build"
    /\ UNCHANGED <<page, disk, channel, calls>>

\* lines 141-146, requests.RequestException: printed, and main returns
FetchFail ==
    /\ pc = "start"
    /\ gets' = gets + 1
    /\ log' = Append(log, "Error fetching data")
    /\ pc' = "done"
    /\ UNCHANGED <<page, disk, channel, calls>>

\* lines 150-160
BuildChannel ==
    /\ pc = "build"
    /\ channel' = << Elem("title", <<"PAGASA ", Upper(Slug), " Advisories">>, <<>>),
                     Elem("link", Url(Slug), <<>>),
                     Elem("description",
                          <<"Aggregated rainfall, thunderstorm, and special forecasts from PAGASA ",
                            Upper(Slug)>>, <<>>),
                     Elem("lastBuildDate", <<"format_datetime(now)">>, <<>>) >>
    /\ pc' = "rainfalls"
    /\ UNCHANGED <<page, disk, log, gets, calls>>

\* lines 163-165: one call of add_items
\* Extend putting the new items first
ExtendInFront(r) ==
    /\ channel' = r.items \o channel
    /\ calls' = calls \o r.calls

Extend(r) ==
    /\ channel' = channel \o r.items
    /\ calls' = calls \o r.calls

AddItems(at, then) ==
    /\ pc = at
    /\ Extend(add_items(page, DivIds[at], Categories[at], Slug))
    /\ pc' = then
    /\ UNCHANGED <<page, disk, log, gets>>

AddRainfalls == AddItems("rainfalls", "thunderstorms")

AddThunderstorms == AddItems("thunderstorms", "special")

AddSpecial == AddItems("special", "write")

\* line 171, open(f"{slug}.rss", "w"): the file is created or truncated
WriteOpen ==
    /\ pc = "write"
    /\ disk' = [exists |-> TRUE, data |-> <<>>]
    /\ pc' = "opened"
    /\ UNCHANGED <<page, channel, log, gets, calls>>

\* lines 171-174, open() raising OSError: printed, nothing touched
WriteOpenFail ==
    /\ pc = "write"
    /\ log' = Append(log, "Error writing RSS file")
    /\ pc' = "done"
    /\ UNCHANGED <<page, disk, channel, gets, calls>>

\* lines 171-172: every chunk reaches the file
WriteAll ==
    /\ pc = "opened"
    /\ disk' = [exists |-> TRUE, data |-> Chunks(channel)]
    /\ log' = Append(log, "Successfully generated")
    /\ pc' = "done"
    /\ UNCHANGED <<page, channel, gets, calls>>

\* lines 171-174, write() or flush raising OSError after n chunks: printed
WriteFail ==
    /\ pc = "opened"
    /\ \E n \in 0..(Len(Chunks(channel)) - 1) :
          disk' = [exists |-> TRUE, data |-> SubSeq(Chunks(channel), 1, n)]
    /\ log' = Append(log, "Error writing RSS file")
    /\ pc' = "done"
    /\ UNCHANGED <<page, channel, gets, calls>>

Next ==
    \/ FetchOk
    \/ FetchFail
    \/ BuildChannel
    \/ AddRainfalls
    \/ AddThunderstorms
    \/ AddSpecial
    \/ WriteOpen
    \/ WriteOpenFail
    \/ WriteAll
    \/ WriteFail

(***************************************************************************)
(* Pages                                                                   *)
(***************************************************************************)
MaxKids == 2

MaxItemKids == 2

MaxNodes == 3

SeqsUpTo(S, n) == UNION {[1..k -> S] : k \in 0..n}

Text(s) == [k |-> "text", s |-> s]

Block(nodes) == [k |-> "div", href |-> None, nodes |-> nodes]

Link(href, nodes) == [k |-> "a", href |-> href, nodes |-> nodes]

Container(id, kids) == [id |-> id, kids |-> kids]

Ids == {"rainfalls", "thunderstorms", "special-forecasts"}

NoDisk == [exists |-> FALSE, data |-> <<>>]

\* a file that an earlier run left
OldDisk == [exists |-> TRUE, data |-> <<[tag |-> "old", text |-> <<>>, kids |-> <<>>, tail |-> <<>>]>>]

Start(pages, disks) ==
    /\ pc = "start"
    /\ page \in pages
    /\ disk \in disks
    /\ channel = <<>>
    /\ log = <<>>
    /\ gets = 0
    /\ calls = <<>>

\* Whole pages: each container present or not, in any document order, with up
\* to MaxKids advisories each.
MainBlocks ==
    { Block(<<Text(<<"N", "o", ".", " ", "1">>)>>), Block(<<Text(<<"w">>)>>) }

MainLinks ==
    { Link(<<"/", "p">>, <<[k |-> "span", s |-> <<"x">>]>>), Link(None, <<Text(<<"y">>)>>) }

MainKids(id) ==
    SeqsUpTo(IF id = "special-forecasts" THEN MainLinks ELSE MainBlocks, MaxKids)

Orders ==
    { o \in [1..3 -> Ids] : \A i, j \in 1..3 : i # j => o[i] # o[j] }

\* the containers that are present, in their document order
Arrangements == UNION { {SubSeq(o, 1, n) : n \in 0..3} : o \in Orders }

MainPages ==
    { [i \in 1..Len(o) |->
          Container(o[i], IF o[i] = "rainfalls" THEN r
                          ELSE IF o[i] = "thunderstorms" THEN t ELSE f)] :
        o \in Arrangements,
        r \in MainKids("rainfalls"),
        t \in MainKids("thunderstorms"),
        f \in MainKids("special-forecasts") }

Init == Start(MainPages, {NoDisk})

Spec == Init /\ [][Next]_vars

\* One container, with up to MaxItemKids blocks and links of every kind.
ItemKids ==
    { Block(<<Text(<<"N", "o", ".", " ", "3", " ", "x">>)>>),
      Block(<<[k |-> "img", s |-> <<>>]>>),
      Block(<<Text(<<" ", "\n">>)>>),
      Block(<<Text(<<"a">>), [k |-> "div", s |-> <<"b">>]>>),
      Block(<<[k |-> "op", s |-> <<"y">>]>>),
      Link(<<"/", "p">>, <<[k |-> "span", s |-> <<"x">>]>>),
      Link(<<"p", ".", "h", "t", "m", "l">>, <<Text(<<"y">>)>>),
      Link(<<"/", "/", "c", "d", "n", "/", "p">>, <<Text(<<"z">>)>>),
      Link(<<"https://example.org", "/", "p">>, <<Text(<<"a", " ", " ", "b">>)>>),
      Link(<<"/", "q">>, <<>>),
      Link(None, <<Text(<<"w">>), [k |-> "span", s |-> <<" ">>]>>) }

ItemPages ==
    { <<Container(id, kids)>> : id \in Ids, kids \in SeqsUpTo(ItemKids, MaxItemKids) }

InitItems == Start(ItemPages, {NoDisk, OldDisk})

SpecItems == InitItems /\ [][Next]_vars

\* One advisory, its content any sequence of up to MaxNodes nodes.
BlockNodes ==
    { Text(<<"N", "o", ".", " ", "1">>), Text(<<"2", " ">>),
      Text(<<"P", "i", "a", "n", "o", " ", "5">>), Text(<<"&">>), Text(<<"SUR">>),
      Text(<<" ">>),
      [k |-> "br", s |-> <<>>], [k |-> "b", s |-> <<"x">>], [k |-> "op", s |-> <<"y">>],
      [k |-> "div", s |-> <<"N", "u", "m", "b", "e", "r", " ", "7">>] }

LinkNodes ==
    { Text(<<"x">>), Text(<<"&">>), Text(<<"<", "b", "r", ">">>),
      Text(<<"&", "n", "b", "s", "p", ";">>), Text(<<"SUR">>),
      Text(<<"<", "b", ">">>), Text(<<"<", "/", "b", ">">>),
      [k |-> "span", s |-> <<"s">>] }

EntryPages ==
    { <<Container("rainfalls", <<Block(nodes)>>)>> : nodes \in SeqsUpTo(BlockNodes, MaxNodes) }
    \cup
    { <<Container("special-forecasts", <<Link(None, nodes)>>)>> :
        nodes \in SeqsUpTo(LinkNodes, MaxNodes) }

InitEntry == Start(EntryPages, {NoDisk})

SpecEntry == InitEntry /\ [][Next]_vars

(***************************************************************************)
(* Properties                                                              *)
(***************************************************************************)
Items(ch) == SelectSeq(ch, LAMBDA e : e.tag = "item")

Children(e, tag) == SelectSeq(e.kids, LAMBDA c : c.tag = tag)

CategoryOf(item) == Children(item, "category")[1].text[1]

ItemsIn(ch, category) == SelectSeq(Items(ch), LAMBDA e : CategoryOf(e) = category)

Rank(category) ==
    CASE category = "Rainfall Advisory" -> 1
      [] category = "Thunderstorm Advisory" -> 2
      [] OTHER -> 3

Printed(msg) == \E i \in 1..Len(log) : log[i] = msg

\* every add_items call of main has returned
Extracted == pc \in {"write", "opened", "done"} /\ ~Printed("Error fetching data")

MetaTags == <<"title", "link", "description", "lastBuildDate">>

C2_FileNeverPartial ==
    \/ disk \in {NoDisk, OldDisk}
    \/ disk = [exists |-> TRUE, data |-> Chunks(channel)]

\* the text of the advisory a kid of a container holds
SourceText(kid) == Cat([i \in 1..Len(kid.nodes) |-> kid.nodes[i].s])

DescriptionTexts(items) ==
    [i \in 1..Len(items) |-> Children(items[i], "description")[1].text]

\* C3: the four metadata elements come first and in their order, only items
\* follow them, the items are grouped Rainfall, Thunderstorm, Special Forecast
\* whatever the document order of the containers, and the items of one
\* category are in the document order of the advisories of its container.
C3_ChannelOrder ==
    /\ channel # <<>> =>
          /\ Len(channel) >= 4
          /\ \A i \in 1..4 : channel[i].tag = MetaTags[i]
          /\ \A i \in 5..Len(channel) : channel[i].tag = "item"
          /\ \A i, j \in 5..Len(channel) :
                i < j => Rank(CategoryOf(channel[i])) <= Rank(CategoryOf(channel[j]))
    /\ Extracted =>
          \A i \in 1..Len(page) :
             DescriptionTexts(ItemsIn(channel, Categories[
                 CHOOSE f \in DOMAIN DivIds : DivIds[f] = page[i].id]))
               = [k \in 1..Len(page[i].kids) |-> SourceText(page[i].kids[k])]

\* a page whose containers are in the reverse of the feed's order, each with
\* two different advisories, has been extracted
C3_Witness ==
    /\ pc = "done"
    /\ Printed("Successfully generated")
    /\ Len(page) = 3
    /\ page[1].id = "special-forecasts"
    /\ page[2].id = "thunderstorms"
    /\ \A i \in 1..3 : Len(page[i].kids) = 2 /\ page[i].kids[1] # page[i].kids[2]

Count(e, tag) == Len(Children(e, tag))

\* C4 as stated: every item has exactly one title, one description and one
\* category, and at most one link.
C4_OneDescriptionEach ==
    \A i \in 1..Len(channel) :
       channel[i].tag = "item" =>
          /\ Count(channel[i], "title") = 1
          /\ Count(channel[i], "description") = 1
          /\ Count(channel[i], "category") = 1
          /\ Count(channel[i], "link") <= 1

HasVisibleText(link) == \E i \in 1..Len(link.nodes) : ~Blank(link.nodes[i].s)

SpecialLinks == SelectSeq(Cat([i \in 1..Len(page) |->
                                 IF page[i].id = "special-forecasts" THEN page[i].kids
                                 ELSE <<>>]),
                          LAMBDA kid : kid.k = "a")

\* C4, amended: every item has exactly one title and exactly one category, at
\* most one link and at most one description; a rainfall or thunderstorm item
\* has exactly one description, and the item of a special-forecasts hyperlink
\* has one exactly when the hyperlink has visible text.
C4_ItemChildren ==
    /\ \A i \in 1..Len(channel) :
          channel[i].tag = "item" =>
             /\ Count(channel[i], "title") = 1
             /\ Count(channel[i], "category") = 1
             /\ Count(channel[i], "link") <= 1
             /\ Count(channel[i], "description") <= 1
             /\ CategoryOf(channel[i]) # "Special Forecast" =>
                   Count(channel[i], "description") = 1
    /\ Extracted =>
          /\ Len(ItemsIn(channel, "Special Forecast")) = Len(SpecialLinks)
          /\ \A k \in 1..Len(SpecialLinks) :
                Count(ItemsIn(channel, "Special Forecast")[k], "description") = 1
                   <=> HasVisibleText(SpecialLinks[k])

\* the item of a hyperlink without text is in the feed, beside one with text
C4_Witness ==
    /\ pc = "done"
    /\ \E i, j \in 1..Len(channel) :
          /\ channel[i].tag = "item" /\ channel[j].tag = "item"
          /\ CategoryOf(channel[i]) = "Special Forecast"
          /\ Count(channel[i], "description") = 0
          /\ Count(channel[i], "link") = 1
          /\ CategoryOf(channel[j]) = "Special Forecast"
          /\ Count(channel[j], "description") = 1

\* a URL with a scheme and a host
IsAbsoluteUrl(u) == u # <<>> /\ u[1] \in {Origin, "https://example.org"}

\* C5: every link element of a special-forecasts item is an absolute URL, the
\* origin prefixed exactly when the href is site-relative (one "/", not "//").
C5_LinksAbsolute ==
    \A i \in 1..Len(channel) :
       channel[i].tag = "item" =>
          \A k \in 1..Count(channel[i], "link") :
             IsAbsoluteUrl(Children(channel[i], "link")[k].text)

\* the markup handed on for the k-th rainfall or thunderstorm item: every such
\* item has a description, so items and parsed fragments correspond
EntryPage == page # <<>> /\ page[1].id # "special-forecasts"

TitleOf(item) == Children(item, "title")[1].text

EndsWith(s, t) == Len(t) <= Len(s) /\ SubSeq(s, Len(s) - Len(t) + 1, Len(s)) = t

NumberedTail(n) == <<"N", "o", ".", " ">> \o n \o <<" ", "#", "VISPRSD">>

PlainTitle(item) == <<CategoryOf(item), " ", "#", "VISPRSD">>

\* "No. N" stands at position i of h: the number N that follows it
NoDotNumberAt(h, i) ==
    IF StartsAt(h, i, <<"N", "o", ".", " ">>) /\ SkipDigits(h, i + 4) > i + 4
    THEN SubSeq(h, i + 4, SkipDigits(h, i + 4) - 1)
    ELSE None

\* C6 as stated: a block whose markup contains "No. N" gets a title that ends
\* in "No. N #SLUG", wherever in the markup it stands; one whose markup has no
\* number gets "<Category> #SLUG".
C6_TitleHasEveryNumber ==
    (Extracted /\ EntryPage) =>
       \A k \in 1..Len(calls) :
          /\ \A i \in 1..Len(calls[k].arg) :
                NoDotNumberAt(calls[k].arg, i) # None =>
                   EndsWith(TitleOf(Items(channel)[k]),
                            NumberedTail(NoDotNumberAt(calls[k].arg, i)))
          /\ (\A i \in 1..Len(calls[k].arg) : ~IsDigit(calls[k].arg[i])) =>
                TitleOf(Items(channel)[k]) = PlainTitle(Items(channel)[k])

MatchesAt(h) == {i \in 1..Len(h) : NumberMatchAt(h, i) # None}

FirstOf(S) == CHOOSE i \in S : \A j \in S : i <= j

WordAt(h, j) ==
    \/ StartsAtNoCase(h, j, <<"n", "o">>)
    \/ StartsAtNoCase(h, j, <<"n", "u", "m", "b", "e", "r">>)

\* the title of the item is what the matches of the pattern in h say
TitleFits(title, plain, h, matches) ==
    /\ matches # {} => title = <<plain[1], " ">> \o NumberedTail(NumberMatchAt(h, FirstOf(matches)))
    /\ matches = {} => title = plain
    /\ (\A i \in 1..Len(h) : ~IsDigit(h[i])) => title = plain
    /\ \A i \in 1..Len(h) :
          (NoDotNumberAt(h, i) # None /\ \A j \in 1..(i - 1) : ~WordAt(h, j)) =>
             EndsWith(title, NumberedTail(NoDotNumberAt(h, i)))

TitleAgrees(item, h) == TitleFits(TitleOf(item), PlainTitle(item), h, MatchesAt(h))

\* C6, amended: the number of the title is the digits of the FIRST match of
\* (No|Number)\.?\s*\d+, letter case ignored, in the block's normalized markup:
\* with a match the title is "<Category> No. <digits> #SLUG", without one it is
\* "<Category> #SLUG".  So a markup without a digit gets no "No." segment, and
\* "No. N" gives the title's number when no "no" or "number" stands before it.
C6_TitleHasFirstNumber ==
    (Extracted /\ EntryPage) =>
       \A k \in 1..Len(calls) : TitleAgrees(Items(channel)[k], calls[k].arg)

\* a block with two matches that capture different numbers has its item
C6_Witness ==
    /\ pc = "done"
    /\ EntryPage
    /\ \E k \in 1..Len(calls) :
          \E i, j \in MatchesAt(calls[k].arg) :
             /\ i < j
             /\ NumberMatchAt(calls[k].arg, i) # NumberMatchAt(calls[k].arg, j)
             /\ NoDotNumberAt(calls[k].arg, j) # None

\* the one container of the page with this id, as a sequence of none or one
ContainerOf(id) == SelectSeq(page, LAMBDA c : c.id = id)

\* C7: a container that is absent contributes no item and no error, whatever
\* the others do: each category has as many items as its container has
\* advisories, none when it is absent; the run ends only in the write step;
\* and a page without any container gives a file of the XML declaration and
\* the four metadata elements.
C7_AbsentContainers ==
    /\ Extracted =>
          /\ \A f \in DOMAIN DivIds :
                Len(ItemsIn(channel, Categories[f])) =
                   (IF ContainerOf(DivIds[f]) = <<>> THEN 0
                    ELSE Len(ContainerOf(DivIds[f])[1].kids))
          /\ Len(channel) = 4 + Len(Items(channel))
    /\ (pc = "done" /\ ~Printed("Error fetching data")) =>
          (Printed("Successfully generated") \/ Printed("Error writing RSS file"))
    /\ (page = <<>> /\ Printed("Successfully generated")) =>
          /\ disk.exists
          /\ Len(disk.data) = 5
          /\ \A i \in 1..4 : disk.data[i + 1].tag = MetaTags[i]

\* the feed of a page without any container was written
C7_Witness ==
    /\ page = <<>>
    /\ pc = "done"
    /\ Printed("Successfully generated")
    /\ Len(disk.data) = 5

\* C8: a rainfalls or thunderstorms container gives one item per direct child
\* block that has text, and none for a nested block or a block without text.
C8_OneItemPerDirectChild ==
    Extracted =>
       \A f \in {"rainfalls", "thunderstorms"} :
          ContainerOf(DivIds[f]) # <<>> =>
             Len(ItemsIn(channel, Categories[f])) =
                Cardinality({k \in 1..Len(ContainerOf(DivIds[f])[1].kids) :
                               /\ ContainerOf(DivIds[f])[1].kids[k].k = "div"
                               /\ ~Blank(SourceText(ContainerOf(DivIds[f])[1].kids[k]))})

CountBr(s) == Cardinality({i \in 1..Len(s) : BrMatch(s, i) > 0})

Tails(kids) == [i \in 1..Len(kids) |-> kids[i].tail]

\* the description d is what the path says of the markup h, given whether
\* fromstring raises UnicodeEncodeError on h, what the strict parse makes of h,
\* and h with its character references decoded
DescriptionFits(d, h, path, raises, parsed, decoded) ==
    /\ path = "plain" <=> raises
    /\ path = "xml" <=> (~raises /\ parsed.ok)
    /\ path = "split" <=> (~raises /\ ~parsed.ok)
    /\ path = "xml" =>
          /\ d.text = parsed.text
          /\ d.kids = parsed.kids
          /\ (\A i \in 1..Len(h) : h[i] \notin {"<", "&"}) => (d.text = h /\ d.kids = <<>>)
    /\ path = "split" =>
          /\ Len(d.kids) = CountBr(decoded)
          /\ \A i \in 1..Len(d.kids) : d.kids[i].tag = <<"b", "r">> /\ d.kids[i].inner = <<>>
          /\ Join(BrCanonical, <<d.text>> \o Tails(d.kids)) = SubBr(decoded)
    /\ path = "plain" => (d.kids = <<>> /\ d.text = PlainText(h))

DescriptionAgrees(d, h, path) ==
    DescriptionFits(d, h, path, RaisesEncodeError(h), XmlParse(h), Unescape(h))

Descriptions(ch) ==
    Cat([i \in 1..Len(ch) |-> IF ch[i].tag = "item" THEN Children(ch[i], "description")
                              ELSE <<>>])

\* C9: a description is made by the first of three ways that applies: the
\* strict parse, its text and children copied, unless fromstring raises; the
\* rebuilt fragment (decoded text split at the line breaks, one br per break)
\* exactly when it raises ParseError; the plain text exactly when it raises
\* anything else.  Every fragment handed over gives a description, and each
\* description depends on its own markup only.
C9_ThreeTierFallback ==
    /\ Len(Descriptions(channel)) = Len(calls)
    /\ \A k \in 1..Len(calls) :
          DescriptionAgrees(Descriptions(channel)[k], calls[k].arg, calls[k].path)
    /\ calls # <<>> => pc \notin {"start", "build"}

\* a malformed block and a well-formed one nested in it both have their items
C9_Witness ==
    /\ pc = "done"
    /\ \E i, j \in 1..Len(calls) :
          /\ calls[i].path = "split"
          /\ Descriptions(channel)[i].kids # <<>>
          /\ calls[j].path = "xml"

IsNormalized(h) ==
    /\ \A i \in 1..Len(h) :
          IsSpace(h[i]) => (h[i] = " " /\ (i > 1 => ~IsSpace(h[i - 1])))
    /\ \A i \in 1..Len(h) : BrMatch(h, i) > 0 => StartsAt(h, i, BrCanonical)
    /\ \A i \in 1..Len(h) : ~StartsAtNoCase(h, i, CloseBr)

\* C10: the markup of every record, of all three categories, is normalized
\* when it is handed to the parse attempt.
C10_ParsedMarkupNormalized ==
    \A k \in 1..Len(calls) : IsNormalized(calls[k].arg)

====
